---- MODULE Spec2Model ----
(***************************************************************************)
(* Model of internal/tally/tally.go of git-who: the per-author tally       *)
(* engine (TallyCommits), the combinable partial tally                     *)
(* (intermediateTally), the two apply/merge/finalize pipelines and the     *)
(* ranking.                                                                *)
(*                                                                         *)
(* Go maps are reference values.  The commit sets of intermediate tallies  *)
(* therefore live in a heap (address -> set of commit hashes) and an       *)
(* intermediateTally value holds the address of its commit set, so that    *)
(* the aliasing done by Add (union := a.commitset) is visible.             *)
(***************************************************************************)
EXTENDS Integers, Sequences, FiniteSets, TLC

VARIABLES
    commits,              \* the commit sequence handed to the engine
    shardOf,              \* shardOf[i]: the shard that holds commits[i]
    wtreefiles,           \* set of paths present in the working tree
    allowOutsideWorktree, \* the override flag
    mode,                 \* opts.Mode
    pipeline,             \* "simple" (TallyCommitsApplyMerge) or "diff"
    heap,                 \* address -> commit set (Go map objects)
    seqOut,               \* outcome of TallyCommits on the whole sequence
    applied,              \* shards whose Apply has returned
    live,                 \* shards whose partial is still owned by the caller
    pool,                 \* shard -> partial (the map returned by Apply/Merge)
    applyErr,             \* shards whose Apply returned an error
    finalOut,             \* outcome of Finalize
    tallies,              \* SpecAdd: slot -> intermediateTally
    leaves,               \* SpecAdd: the contents of the slots at the start
    alive,                \* SpecAdd: slots not yet used as an operand
    lastAdd,              \* SpecAdd: the operands and result of the last Add
    rankIn,               \* SpecRank: the map handed to sortTallies
    rankOut,              \* SpecRank: the slice sortTallies returned
    errAt,                \* position at which the sequence yields an error, 0: none
    calls,                \* call -> what it consumed and returned (0: TallyCommits,
                          \* i: Apply of shard i)
    panicked,             \* a call reached the panic of SortKey
    acc                   \* SpecApply: shard -> the running Apply call's locals

vars == <<commits, shardOf, wtreefiles, allowOutsideWorktree, mode, pipeline,
          heap, seqOut, applied, live, pool, applyErr, finalOut,
          tallies, leaves, alive, lastAdd, rankIn, rankOut,
          errAt, calls, panicked, acc>>

(***************************************************************************)
(* Bounds                                                                  *)
(***************************************************************************)
MaxCommits == 3
MaxShards == 3
MaxLeaves == 3
MaxRank == 3

(***************************************************************************)
(* TallyMode                                                               *)
(***************************************************************************)
CommitMode == 0
LinesMode == 1
FilesMode == 2
LastModifiedMode == 3

Modes == {CommitMode, LinesMode, FilesMode, LastModifiedMode}

IsDiffMode(m) == m = FilesMode \/ m = LinesMode

\* the zero time.Time; every commit date is later
ZeroTime == 0

TimeMax(a, b) == IF a > b THEN a ELSE b

(***************************************************************************)
(* Generic helpers                                                         *)
(***************************************************************************)
Put(f, k, v) == [x \in (DOMAIN f) \cup {k} |-> IF x = k THEN v ELSE f[x]]

EmptyMap == [x \in {} |-> 0]

RECURSIVE RangeOrder(_)
\* one order in which a range loop may visit the keys of a map
RangeOrder(S) ==
    IF S = {} THEN <<>>
    ELSE LET x == CHOOSE y \in S : TRUE IN <<x>> \o RangeOrder(S \ {x})

\* every order in which a range loop may visit the keys of a map
RangeOrders(S) ==
    {f \in [1..Cardinality(S) -> S] : \A i, j \in DOMAIN f : f[i] = f[j] => i = j}

(***************************************************************************)
(* Tally: SortKey, Compare                                                 *)
(***************************************************************************)
ZeroTally ==
    [AuthorName |-> "", AuthorEmail |-> "", Commits |-> 0, LinesAdded |-> 0,
     LinesRemoved |-> 0, FileCount |-> 0, LastCommitTime |-> ZeroTime]

SortKey(t, m) ==
    CASE m = CommitMode -> t.Commits
      [] m = FilesMode -> t.FileCount
      [] m = LinesMode -> t.LinesAdded + t.LinesRemoved
      [] m = LastModifiedMode -> t.LastCommitTime

TimeCompare(a, b) == IF a < b THEN -1 ELSE IF a > b THEN 1 ELSE 0

\* mutant: ties in the metric are not broken by the last commit time
Compare_NoTieBreak(a, b, m) ==
    LET aRank == SortKey(a, m)
        bRank == SortKey(b, m)
    IN IF aRank < bRank THEN -1
       ELSE IF bRank < aRank THEN 1
       ELSE 0

\* mutant: equal metrics count as less
Compare_LeqRank(a, b, m) ==
    LET aRank == SortKey(a, m)
        bRank == SortKey(b, m)
    IN IF aRank <= bRank THEN -1
       ELSE IF bRank < aRank THEN 1
       ELSE TimeCompare(a.LastCommitTime, b.LastCommitTime)

Compare(a, b, m) ==
    LET aRank == SortKey(a, m)
        bRank == SortKey(b, m)
    IN IF aRank < bRank THEN -1
       ELSE IF bRank < aRank THEN 1
       ELSE TimeCompare(a.LastCommitTime, b.LastCommitTime)

(***************************************************************************)
(* intermediateTally                                                       *)
(***************************************************************************)
\* a fresh address for the call named owner
Alloc(h, owner) == <<owner, Cardinality({a \in DOMAIN h : a[1] = owner}) + 1>>

newTally(h, owner, numTallied) ==
    LET r == Alloc(h, owner)
    IN [heap |-> Put(h, r, {}),
        val |-> [commitset |-> r, added |-> 0, removed |-> 0,
                 lastCommitTime |-> ZeroTime, numTallied |-> numTallied]]

\* mutant: the contribution events are counted instead of the commits
Commits_CountEvents(h, t) == t.numTallied

Commits(h, t) == Cardinality(h[t.commitset])

\* mutant: the time of the right operand wins instead of the later time
Add_LastTimeWins(h, a, b) ==
    [heap |-> [h EXCEPT ![a.commitset] = @ \cup h[b.commitset]],
     val |-> [commitset |-> a.commitset,
              added |-> a.added + b.added,
              removed |-> a.removed + b.removed,
              lastCommitTime |-> b.lastCommitTime,
              numTallied |-> a.numTallied + b.numTallied]]

\* union := a.commitset shares a's map: the loop writes b's commits into it
Add(h, a, b) ==
    [heap |-> [h EXCEPT ![a.commitset] = @ \cup h[b.commitset]],
     val |-> [commitset |-> a.commitset,
              added |-> a.added + b.added,
              removed |-> a.removed + b.removed,
              lastCommitTime |-> TimeMax(a.lastCommitTime, b.lastCommitTime),
              numTallied |-> a.numTallied + b.numTallied]]

\* an intermediateTally with its commit set read from the heap
TallyView(h, t) == [t EXCEPT !.commitset = h[t.commitset]]

(***************************************************************************)
(* Commits (git.Commit) and the author key                                 *)
(***************************************************************************)
\* opts.Key: the author's identity is the e-mail address
Key(c) == c.AuthorEmail

(***************************************************************************)
(* Author-paths table: tallyByPaths and AuthorPaths.Union                  *)
(***************************************************************************)
\* the partial tally that stands for one commit's edit of one path
commitPartial(h, owner, c, d) ==
    LET n == newTally(h, owner, 1)
    IN [heap |-> [n.heap EXCEPT ![n.val.commitset] = {c.Hash}],
        val |-> [n.val EXCEPT !.added = d.LinesAdded,
                              !.removed = d.LinesRemoved,
                              !.lastCommitTime = c.Date]]

\* st = [heap, authors]; one touched path of one commit
tallyDiff(st, owner, c, d) ==
    LET key == Key(c)
        known == key \in DOMAIN st.authors
        paths == IF known THEN st.authors[key].paths ELSE EmptyMap
        p0 == IF d.Path \in DOMAIN paths
              THEN [heap |-> st.heap, val |-> paths[d.Path]]
              ELSE newTally(st.heap, owner, 0)
        cp == commitPartial(p0.heap, owner, c, d)
        sum == Add(cp.heap, p0.val, cp.val)
    IN [heap |-> sum.heap,
        authors |-> Put(st.authors, key,
                        [name |-> c.AuthorName, email |-> c.AuthorEmail,
                         paths |-> Put(paths, d.Path, sum.val)])]

RECURSIVE tallyDiffs(_, _, _, _)
tallyDiffs(st, owner, c, ds) ==
    IF ds = <<>> THEN st
    ELSE tallyDiffs(tallyDiff(st, owner, c, Head(ds)), owner, c, Tail(ds))

RECURSIVE tallyByPathsFrom(_, _, _)
tallyByPathsFrom(st, owner, cs) ==
    IF cs = <<>> THEN st
    ELSE tallyByPathsFrom(tallyDiffs(st, owner, Head(cs), Head(cs).FileDiffs),
                          owner, Tail(cs))

\* returns [heap, authors]: authors maps an author key to AuthorPaths
tallyByPaths(h, owner, cs) ==
    tallyByPathsFrom([heap |-> h, authors |-> EmptyMap], owner, cs)

RECURSIVE UnionPaths(_, _, _, _)
\* st = [heap, paths], seeded with a's paths; ps = the paths of b to visit
UnionPaths(st, a, b, ps) ==
    IF ps = <<>> THEN st
    ELSE LET p == Head(ps)
             r == IF p \in DOMAIN a.paths
                  THEN Add(st.heap, a.paths[p], b.paths[p])
                  ELSE [heap |-> st.heap, val |-> b.paths[p]]
         IN UnionPaths([heap |-> r.heap, paths |-> Put(st.paths, p, r.val)],
                       a, b, Tail(ps))

\* AuthorPaths.Union: returns [heap, val]
Union(h, a, b) ==
    LET r == UnionPaths([heap |-> h, paths |-> a.paths], a, b,
                        RangeOrder(DOMAIN b.paths))
    IN [heap |-> r.heap,
        val |-> [name |-> a.name, email |-> a.email, paths |-> r.paths]]

(***************************************************************************)
(* sumOverPaths                                                            *)
(***************************************************************************)
\* mutant: the override flag is not consulted
inFilter_NoOverride(path, wtree, allow) == path \in wtree

\* mutant: every path is summed
inFilter_Always(path, wtree, allow) == TRUE

\* the condition under which a path's tally is summed into runningTally
inFilter(path, wtree, allow) ==
    LET inWTree == path \in wtree IN inWTree \/ allow

\* mutant: the path's tally is the receiver of Add
sumStep_PathIsReceiver(run, pathTally) == Add(run.heap, pathTally, run.val)

\* runningTally = runningTally.Add(pathTally), run = [heap, val]
sumStep(run, pathTally) == Add(run.heap, run.val, pathTally)

RECURSIVE sumPaths(_, _, _, _, _)
\* the inner loop: run = [heap, val] is runningTally
sumPaths(run, author, ps, wtree, allow) ==
    IF ps = <<>> THEN run
    ELSE LET path == Head(ps)
             next == IF inFilter(path, wtree, allow)
                     THEN sumStep(run, author.paths[path])
                     ELSE run
         IN sumPaths(next, author, Tail(ps), wtree, allow)

RECURSIVE sumAuthors(_, _, _, _, _, _)
\* the outer loop: st = [heap, tallies]
sumAuthors(st, owner, authors, ks, wtree, allow) ==
    IF ks = <<>> THEN st
    ELSE LET key == Head(ks)
             author == authors[key]
             run == sumPaths(newTally(st.heap, owner, 0), author,
                             RangeOrder(DOMAIN author.paths), wtree, allow)
             authorTally ==
                 [AuthorName |-> author.name,
                  AuthorEmail |-> author.email,
                  Commits |-> Commits(run.heap, run.val),
                  LinesAdded |-> run.val.added,
                  LinesRemoved |-> run.val.removed,
                  FileCount |-> run.val.numTallied,
                  LastCommitTime |-> run.val.lastCommitTime]
         IN sumAuthors([heap |-> run.heap,
                        tallies |-> Put(st.tallies, key, authorTally)],
                       owner, authors, Tail(ks), wtree, allow)

\* returns [heap, tallies]
sumOverPaths(h, owner, authors, wtree, allow) ==
    sumAuthors([heap |-> h, tallies |-> EmptyMap], owner, authors,
               RangeOrder(DOMAIN authors), wtree, allow)

(***************************************************************************)
(* tallyCommits, sortTallies, TallyCommits                                 *)
(***************************************************************************)
RECURSIVE sumCommits(_, _)
\* the simple strategy: just sum over commits
sumCommits(authorTallies, cs) ==
    IF cs = <<>> THEN authorTallies
    ELSE LET commit == Head(cs)
             key == Key(commit)
             old == IF key \in DOMAIN authorTallies
                    THEN authorTallies[key] ELSE ZeroTally
             authorTally ==
                 [old EXCEPT !.AuthorName = commit.AuthorName,
                             !.AuthorEmail = commit.AuthorEmail,
                             !.Commits = @ + 1,
                             !.LastCommitTime = TimeMax(commit.Date, @)]
         IN sumCommits(Put(authorTallies, key, authorTally), Tail(cs))

\* mutant: the path-aware strategy is followed whatever the mode and flag are
tallyCommits_AlwaysPaths(h, owner, cs, wtree, allow, m) ==
    LET pathTallies == tallyByPaths(h, owner, cs)
    IN sumOverPaths(pathTallies.heap, owner, pathTallies.authors, wtree, allow)

\* returns [heap, tallies]
tallyCommits(h, owner, cs, wtree, allow, m) ==
    IF ~IsDiffMode(m) /\ allow
    THEN [heap |-> h, tallies |-> sumCommits(EmptyMap, cs)]
    ELSE LET pathTallies == tallyByPaths(h, owner, cs)
         IN sumOverPaths(pathTallies.heap, owner, pathTallies.authors,
                         wtree, allow)

\* the comparison handed to slices.SortedFunc
SortCmp(a, b, m) == -Compare(a, b, m)

RECURSIVE InsertTally(_, _, _)
\* insert t behind every element that does not sort after it
InsertTally(s, t, m) ==
    IF s = <<>> THEN <<t>>
    ELSE IF SortCmp(t, Head(s), m) < 0 THEN <<t>> \o s
    ELSE <<Head(s)>> \o InsertTally(Tail(s), t, m)

RECURSIVE SortFrom(_, _, _)
SortFrom(sorted, rest, m) ==
    IF rest = <<>> THEN sorted
    ELSE SortFrom(InsertTally(sorted, Head(rest), m), Tail(rest), m)

\* order: the order in which maps.Values yields the map's entries
sortTallies(ts, m, order) ==
    SortFrom(<<>>, [i \in DOMAIN order |-> ts[order[i]]], m)

(***************************************************************************)
(* Panic of SortKey, reads of the working-tree map                         *)
(***************************************************************************)
\* SortKey reaches panic("unrecognized mode in switch statement")
sortKeyPanics(m) == m \notin Modes

\* sortTallies panics: the comparison runs as soon as there are two tallies
sortPanics(ts, m) == Cardinality(DOMAIN ts) >= 2 /\ sortKeyPanics(m)

\* mutant: reading an absent key adds it to the map
wtreeRead_Inserts(wtree, path) == wtree \cup {path}

\* the working-tree map after the read wtreefiles[path]
wtreeRead(wtree, path) == wtree

RECURSIVE wtreeReads(_, _)
wtreeReads(wtree, ps) ==
    IF ps = <<>> THEN wtree
    ELSE wtreeReads(wtreeRead(wtree, Head(ps)), Tail(ps))

\* the working-tree map after sumOverPaths has tested every path of the table
wtreeAfterSum(wtree, authors) ==
    wtreeReads(wtree, RangeOrder(UNION {DOMAIN authors[k].paths : k \in DOMAIN authors}))

(***************************************************************************)
(* Ranging over iter.Seq2[git.Commit, error]                               *)
(***************************************************************************)
NilErr == [msg |-> "nil", wraps |-> "nil"]

\* fmt.Errorf("error iterating commits: %w", err)
IterErr == [msg |-> "error iterating commits", wraps |-> "source error"]

ModeErr == [msg |-> "unsupported tally mode", wraps |-> "nil"]

HasErr(items) == \E n \in DOMAIN items : items[n].err

\* the elements the range loop pulls: all, or up to and with the first error
Consumed(items) ==
    IF HasErr(items)
    THEN CHOOSE n \in DOMAIN items :
            items[n].err /\ \A k \in 1..(n - 1) : ~items[k].err
    ELSE Len(items)

\* the commits the loop body ran for
Ranged(items) ==
    [n \in 1..(IF HasErr(items) THEN Consumed(items) - 1 ELSE Len(items)) |->
        items[n].commit]

\* tallyByPaths over a sequence that may yield an error:
\* [err, heap, authors, isNil, consumed]
tallyByPathsIter(h, owner, items) ==
    LET r == tallyByPaths(h, owner, Ranged(items))
    IN IF HasErr(items)
       THEN [err |-> IterErr, heap |-> r.heap, authors |-> EmptyMap,
             isNil |-> TRUE, consumed |-> Consumed(items)]
       ELSE [err |-> NilErr, heap |-> r.heap, authors |-> r.authors,
             isNil |-> FALSE, consumed |-> Consumed(items)]

\* mutant: the tallies summed so far are returned with the error
tallyCommitsIter_PartialOnErr(h, owner, items, wtree, allow, m) ==
    LET r == tallyCommits(h, owner, Ranged(items), wtree, allow, m)
    IN [err |-> IF HasErr(items) THEN IterErr ELSE NilErr,
        heap |-> r.heap, tallies |-> r.tallies, isNil |-> FALSE,
        consumed |-> Consumed(items), wtree |-> wtree]

\* tallyCommits over a sequence that may yield an error:
\* [err, heap, tallies, isNil, consumed, wtree]
tallyCommitsIter(h, owner, items, wtree, allow, m) ==
    IF HasErr(items)
    THEN [err |-> IterErr,
          heap |-> IF ~IsDiffMode(m) /\ allow THEN h
                   ELSE tallyByPathsIter(h, owner, items).heap,
          tallies |-> EmptyMap, isNil |-> TRUE,
          consumed |-> Consumed(items), wtree |-> wtree]
    ELSE LET r == tallyCommits(h, owner, Ranged(items), wtree, allow, m)
         IN [err |-> NilErr, heap |-> r.heap, tallies |-> r.tallies,
             isNil |-> FALSE, consumed |-> Consumed(items),
             wtree |-> IF ~IsDiffMode(m) /\ allow THEN wtree
                       ELSE wtreeAfterSum(wtree,
                                tallyByPaths(h, owner, Ranged(items)).authors)]

(***************************************************************************)
(* Merge of the two pipelines                                              *)
(***************************************************************************)
RECURSIVE mergeSimpleFrom(_, _, _)
\* union starts as b and is written once for every key of a
mergeSimpleFrom(union, a, ks) ==
    IF ks = <<>> THEN union
    ELSE LET k == Head(ks)
             bt == IF k \in DOMAIN union THEN union[k] ELSE ZeroTally
             at == [a[k] EXCEPT
                      !.Commits = @ + bt.Commits,
                      !.LastCommitTime = TimeMax(@, bt.LastCommitTime)]
         IN mergeSimpleFrom(Put(union, k, at), a, Tail(ks))

\* mutant: union starts as a instead of b
mergeSimple_UnionIsA(a, b) == mergeSimpleFrom(a, a, RangeOrder(DOMAIN a))

\* mutant: an entry of a replaces the entry of b instead of adding to it
mergeSimple_AReplaces(a, b) ==
    [k \in DOMAIN a \cup DOMAIN b |-> IF k \in DOMAIN a THEN a[k] ELSE b[k]]

mergeSimple(a, b) == mergeSimpleFrom(b, a, RangeOrder(DOMAIN a))

RECURSIVE mergeDiffFrom(_, _, _, _)
\* st = [heap, union]; union starts as b
mergeDiffFrom(st, a, b, ks) ==
    IF ks = <<>> THEN st
    ELSE LET key == Head(ks)
             r == IF key \in DOMAIN b
                  THEN Union(st.heap, a[key], b[key])
                  ELSE [heap |-> st.heap, val |-> a[key]]
         IN mergeDiffFrom([heap |-> r.heap, union |-> Put(st.union, key, r.val)],
                          a, b, Tail(ks))

\* returns [heap, union]
mergeDiff(h, a, b) ==
    mergeDiffFrom([heap |-> h, union |-> b], a, b, RangeOrder(DOMAIN a))

(***************************************************************************)
(* Inputs                                                                  *)
(***************************************************************************)
Diff(p, a, r) == [Path |-> p, LinesAdded |-> a, LinesRemoved |-> r]

\* the commits the input sequences are drawn from
CommitMenu ==
    { [Hash |-> "c1", AuthorName |-> "A", AuthorEmail |-> "a@x", Date |-> 2,
       FileDiffs |-> <<Diff("x.go", 10, 0), Diff("y.go", 5, 0)>>],
      [Hash |-> "c2", AuthorName |-> "B", AuthorEmail |-> "b@x", Date |-> 1,
       FileDiffs |-> <<Diff("z.go", 3, 0)>>],
      [Hash |-> "c3", AuthorName |-> "A2", AuthorEmail |-> "a@x", Date |-> 3,
       FileDiffs |-> <<>>],
      [Hash |-> "c4", AuthorName |-> "B", AuthorEmail |-> "b@x", Date |-> 2,
       FileDiffs |-> <<Diff("z.go", 2, 1), Diff("x.go", 1, 2)>>] }

\* sequences of distinct commits
CommitSeqs ==
    UNION { {f \in [1..n -> CommitMenu] :
                \A i, j \in 1..n : f[i] = f[j] => i = j} : n \in 0..MaxCommits }

WTrees == { {"x.go", "y.go"}, {"z.go"} }

SetMax(S) == CHOOSE x \in S : \A y \in S : y <= x

\* the partitions of positions 1..n into at most MaxShards shards, the
\* shards numbered in the order of their first commit
Partitions(n) ==
    {f \in [1..n -> 1..MaxShards] :
        \A i \in 1..n : f[i] <= SetMax({0} \cup {f[j] : j \in 1..(i-1)}) + 1}

NumShards == SetMax({1} \cup {shardOf[i] : i \in DOMAIN shardOf})

RECURSIVE ShardFrom(_, _)
ShardFrom(i, k) ==
    IF k > Len(commits) THEN <<>>
    ELSE (IF shardOf[k] = i THEN <<commits[k]>> ELSE <<>>) \o ShardFrom(i, k + 1)

\* the commits of shard i, in the order of the sequence
Shard(i) == ShardFrom(i, 1)

RECURSIVE ItemsFrom(_, _)
\* the elements of shard i (of the whole sequence for i = 0) from position k
ItemsFrom(i, k) ==
    IF k > Len(commits) THEN <<>>
    ELSE (IF i = 0 \/ shardOf[k] = i
          THEN <<[commit |-> commits[k], err |-> (k = errAt)]>>
          ELSE <<>>) \o ItemsFrom(i, k + 1)

\* what the sequence of shard i yields
ShardItems(i) == ItemsFrom(i, 1)

\* what the whole sequence yields
InputItems == ItemsFrom(0, 1)

NoOut == [done |-> FALSE, tallies |-> EmptyMap, ranked |-> <<>>]

NoAdd == [done |-> FALSE, a |-> 0, b |-> 0, r |-> 0, aBefore |-> 0, bBefore |-> 0]

PipelineIdle ==
    /\ commits = <<>> /\ shardOf = <<>> /\ wtreefiles = {}
    /\ allowOutsideWorktree = FALSE /\ pipeline = "none"
    /\ seqOut = NoOut /\ applied = {} /\ live = {} /\ pool = EmptyMap
    /\ applyErr = {} /\ finalOut = NoOut
    /\ errAt = 0 /\ calls = EmptyMap /\ panicked = FALSE /\ acc = EmptyMap

AddIdle ==
    /\ tallies = <<>> /\ leaves = <<>> /\ alive = {} /\ lastAdd = NoAdd

RankIdle ==
    /\ rankIn = EmptyMap /\ rankOut = NoOut

Init ==
    /\ commits \in CommitSeqs
    /\ shardOf \in Partitions(Len(commits))
    /\ wtreefiles \in WTrees
    /\ allowOutsideWorktree \in BOOLEAN
    /\ mode \in Modes
    /\ pipeline \in {"simple", "diff"}
    /\ heap = EmptyMap
    /\ seqOut = NoOut
    /\ applied = {}
    /\ live = {}
    /\ pool = EmptyMap
    /\ applyErr = {}
    /\ finalOut = NoOut
    /\ errAt = 0
    /\ calls = EmptyMap
    /\ panicked = FALSE
    /\ acc = EmptyMap
    /\ AddIdle
    /\ RankIdle

(***************************************************************************)
(* The sequential engine and the pipelines                                 *)
(***************************************************************************)
configVars == <<commits, shardOf, allowOutsideWorktree, mode, pipeline, errAt>>
inputVars == <<configVars, wtreefiles>>
addVars == <<tallies, leaves, alive, lastAdd>>
rankVars == <<rankIn, rankOut>>

Returned(r) == [consumed |-> r.consumed, err |-> r.err, isNil |-> r.isNil]

TallyCommits ==
    /\ pipeline # "none"
    /\ ~panicked
    /\ ~seqOut.done
    /\ LET r == tallyCommitsIter(heap, "seq", InputItems, wtreefiles,
                                 allowOutsideWorktree, mode)
       IN /\ heap' = r.heap
          /\ wtreefiles' = r.wtree
          /\ IF r.err # NilErr
             THEN /\ seqOut' = [done |-> TRUE, tallies |-> EmptyMap,
                                ranked |-> <<>>]
                  /\ calls' = Put(calls, 0, Returned(r))
                  /\ UNCHANGED panicked
             ELSE IF sortPanics(r.tallies, mode)
             THEN /\ panicked' = TRUE
                  /\ UNCHANGED <<seqOut, calls>>
             ELSE /\ \E order \in RangeOrders(DOMAIN r.tallies) :
                        seqOut' = [done |-> TRUE, tallies |-> r.tallies,
                                   ranked |-> sortTallies(r.tallies, mode, order)]
                  /\ calls' = Put(calls, 0, Returned(r))
                  /\ UNCHANGED panicked
    /\ UNCHANGED <<configVars, applied, live, pool, applyErr, finalOut,
                   addVars, rankVars, acc>>

\* mutant: the mode is not checked
applySimple_NoGuard(h, owner, items) ==
    LET r == tallyCommitsIter(h, owner, items, wtreefiles,
                              allowOutsideWorktree, mode)
    IN [err |-> r.err, heap |-> r.heap, val |-> r.tallies,
        isNil |-> r.isNil, consumed |-> r.consumed, wtree |-> r.wtree]

\* apply of TallyCommitsApplyMerge: [err, heap, val, isNil, consumed, wtree]
applySimple(h, owner, items) ==
    IF IsDiffMode(mode)
    THEN [err |-> ModeErr, heap |-> h, val |-> EmptyMap, isNil |-> TRUE,
          consumed |-> 0, wtree |-> wtreefiles]
    ELSE LET r == tallyCommitsIter(h, owner, items, wtreefiles,
                                   allowOutsideWorktree, mode)
         IN [err |-> r.err, heap |-> r.heap, val |-> r.tallies,
             isNil |-> r.isNil, consumed |-> r.consumed, wtree |-> r.wtree]

\* apply of TallyCommitsDiffApplyMerge: [err, heap, val, isNil, consumed, wtree]
applyDiff(h, owner, items) ==
    LET r == tallyByPathsIter(h, owner, items)
    IN [err |-> r.err, heap |-> r.heap, val |-> r.authors,
        isNil |-> r.isNil, consumed |-> r.consumed, wtree |-> wtreefiles]

ShardOwner(i) == "shard" \o ToString(i)

\* the call for shard i hands r = [err, heap, val, isNil, consumed, wtree]
\* back to the scheduler
applyDone(i, r) ==
    /\ heap' = r.heap
    /\ wtreefiles' = r.wtree
    /\ applied' = applied \cup {i}
    /\ calls' = Put(calls, i, Returned(r))
    /\ IF r.err # NilErr
       THEN /\ applyErr' = applyErr \cup {i}
            /\ pool' = IF r.isNil THEN pool ELSE Put(pool, i, r.val)
            /\ UNCHANGED live
       ELSE /\ pool' = Put(pool, i, r.val)
            /\ live' = live \cup {i}
            /\ UNCHANGED applyErr
    /\ UNCHANGED <<configVars, seqOut, finalOut, addVars, rankVars,
                   panicked, acc>>

\* the pipeline is driven after the sequential engine has returned, so that
\* both outcomes of one input are there to compare; the calls return in the
\* order of the shards (SpecApply runs them in every interleaving), and Merge
\* takes the partials in any order
Apply(i) ==
    /\ pipeline # "none"
    /\ ~panicked
    /\ seqOut.done
    /\ i \in 1..NumShards
    /\ i \notin applied
    /\ \A k \in 1..(i - 1) : k \in applied
    /\ applyDone(i, IF pipeline = "simple"
                    THEN applySimple(heap, ShardOwner(i), ShardItems(i))
                    ELSE applyDiff(heap, ShardOwner(i), ShardItems(i)))

\* Merge(pool[i], pool[j]): the result is b's map (union := b), so it takes
\* pool[j]'s place; ownership of pool[i] passes to the result
Merge(i, j) ==
    /\ i \in live /\ j \in live /\ i # j
    /\ ~finalOut.done
    /\ IF pipeline = "simple"
       THEN /\ pool' = [pool EXCEPT ![j] = mergeSimple(pool[i], pool[j])]
            /\ UNCHANGED heap
       ELSE LET r == mergeDiff(heap, pool[i], pool[j])
            IN /\ pool' = [pool EXCEPT ![j] = r.union]
               /\ heap' = r.heap
    /\ live' = live \ {i}
    /\ UNCHANGED <<inputVars, seqOut, applied, applyErr, finalOut,
                   addVars, rankVars, calls, panicked, acc>>

\* finalize of TallyCommitsApplyMerge: [heap, tallies, ranked]
finalizeSimple(h, ts, order) ==
    [heap |-> h, tallies |-> ts, ranked |-> sortTallies(ts, mode, order)]

\* finalize of TallyCommitsDiffApplyMerge: [heap, tallies, ranked]
finalizeDiff(h, authors, order) ==
    LET r == sumOverPaths(h, "finalize", authors, wtreefiles,
                          allowOutsideWorktree)
    IN [heap |-> r.heap, tallies |-> r.tallies,
        ranked |-> sortTallies(r.tallies, mode, order)]

\* runs once, on the fully combined partial
Finalize ==
    /\ pipeline # "none"
    /\ ~panicked
    /\ ~finalOut.done
    /\ applied = 1..NumShards
    /\ applyErr = {}
    /\ Cardinality(live) = 1
    /\ LET j == CHOOSE k \in live : TRUE
           ts == IF pipeline = "simple" THEN pool[j]
                 ELSE sumOverPaths(heap, "finalize", pool[j], wtreefiles,
                                   allowOutsideWorktree).tallies
       IN /\ wtreefiles' = IF pipeline = "simple" THEN wtreefiles
                           ELSE wtreeAfterSum(wtreefiles, pool[j])
          /\ IF sortPanics(ts, mode)
             THEN /\ panicked' = TRUE
                  /\ heap' = IF pipeline = "simple" THEN heap
                             ELSE sumOverPaths(heap, "finalize", pool[j],
                                               wtreefiles,
                                               allowOutsideWorktree).heap
                  /\ UNCHANGED finalOut
             ELSE /\ \E order \in RangeOrders(DOMAIN pool[j]) :
                        LET r == IF pipeline = "simple"
                                 THEN finalizeSimple(heap, pool[j], order)
                                 ELSE finalizeDiff(heap, pool[j], order)
                        IN /\ heap' = r.heap
                           /\ finalOut' = [done |-> TRUE, tallies |-> r.tallies,
                                           ranked |-> r.ranked]
                  /\ UNCHANGED panicked
    /\ UNCHANGED <<configVars, seqOut, applied, live, pool, applyErr,
                   addVars, rankVars, calls, acc>>

Next ==
    \/ TallyCommits
    \/ \E i \in 1..MaxShards : Apply(i)
    \/ \E i, j \in 1..MaxShards : Merge(i, j)
    \/ Finalize

Spec == Init /\ [][Next]_vars

(***************************************************************************)
(* SpecMerge: the engine and the pipelines up to the last Merge            *)
(***************************************************************************)
NextMerge ==
    \/ TallyCommits
    \/ \E i \in 1..MaxShards : Apply(i)
    \/ \E i, j \in 1..MaxShards : Merge(i, j)

SpecMerge == Init /\ [][NextMerge]_vars

(***************************************************************************)
(* SpecApply: the Apply calls of the shards run concurrently, one element  *)
(* of a shard at a time                                                    *)
(***************************************************************************)
InitApply ==
    /\ commits \in CommitSeqs
    /\ shardOf \in Partitions(Len(commits))
    /\ wtreefiles \in WTrees
    /\ allowOutsideWorktree \in BOOLEAN
    /\ mode \in Modes
    /\ pipeline \in {"simple", "diff"}
    /\ errAt = 0
    /\ heap = EmptyMap /\ seqOut = NoOut /\ applied = {} /\ live = {}
    /\ pool = EmptyMap /\ applyErr = {} /\ finalOut = NoOut
    /\ calls = EmptyMap /\ panicked = FALSE
    /\ acc = [pos |-> EmptyMap, map |-> EmptyMap]
    /\ AddIdle
    /\ RankIdle

\* mutant: every call builds its result in one map shared by all calls
localMap_Shared(i) == 1

\* the map the call for shard i builds its result in: a local of the call
localMap(i) == i

\* the number of elements the call for shard i has consumed
Pos(i) == IF i \in DOMAIN acc.pos THEN acc.pos[i] ELSE 0

\* the result map of the call for shard i, made when the call starts
Cur(i) == IF Pos(i) = 0 THEN EmptyMap ELSE acc.map[localMap(i)]

\* apply of TallyCommitsApplyMerge refuses the mode
Mismatch == pipeline = "simple" /\ IsDiffMode(mode)

\* apply runs the simple strategy of tallyCommits
SimpleStrategy ==
    pipeline = "simple" /\ ~IsDiffMode(mode) /\ allowOutsideWorktree

\* one pass of the range loop of the call for shard i
ApplyStep(i) ==
    /\ pipeline # "none"
    /\ i \in 1..NumShards
    /\ i \notin applied
    /\ ~Mismatch
    /\ Pos(i) < Len(Shard(i))
    /\ LET commit == Shard(i)[Pos(i) + 1]
           st == IF SimpleStrategy
                 THEN [heap |-> heap,
                       authors |-> sumCommits(Cur(i), <<commit>>)]
                 ELSE tallyByPathsFrom([heap |-> heap, authors |-> Cur(i)],
                                       ShardOwner(i), <<commit>>)
       IN /\ heap' = st.heap
          /\ acc' = [pos |-> Put(acc.pos, i, Pos(i) + 1),
                     map |-> Put(acc.map, localMap(i), st.authors)]
    /\ UNCHANGED <<inputVars, seqOut, applied, live, pool, applyErr, finalOut,
                   addVars, rankVars, calls, panicked>>

\* the call for shard i returns: [err, heap, val, isNil, consumed, wtree]
applyReturns(i) ==
    IF Mismatch
    THEN [err |-> ModeErr, heap |-> heap, val |-> EmptyMap, isNil |-> TRUE,
          consumed |-> 0, wtree |-> wtreefiles]
    ELSE IF pipeline = "simple" /\ ~SimpleStrategy
    THEN LET r == sumOverPaths(heap, ShardOwner(i), Cur(i), wtreefiles,
                               allowOutsideWorktree)
         IN [err |-> NilErr, heap |-> r.heap, val |-> r.tallies,
             isNil |-> FALSE, consumed |-> Pos(i),
             wtree |-> wtreeAfterSum(wtreefiles, Cur(i))]
    ELSE [err |-> NilErr, heap |-> heap, val |-> Cur(i), isNil |-> FALSE,
          consumed |-> Pos(i), wtree |-> wtreefiles]

ApplyReturn(i) ==
    /\ pipeline # "none"
    /\ i \in 1..NumShards
    /\ i \notin applied
    /\ Mismatch \/ Pos(i) = Len(Shard(i))
    /\ applyDone(i, applyReturns(i))

NextApply ==
    \/ \E i \in 1..MaxShards : ApplyStep(i)
    \/ \E i \in 1..MaxShards : ApplyReturn(i)

SpecApply == InitApply /\ [][NextApply]_vars

(***************************************************************************)
(* SpecErr: the same engine and pipelines on sequences that may yield an   *)
(* error; SpecMode: the same with a mode outside the enumeration           *)
(***************************************************************************)
InitErr ==
    /\ commits \in CommitSeqs
    /\ shardOf \in Partitions(Len(commits))
    /\ wtreefiles \in WTrees
    /\ allowOutsideWorktree \in BOOLEAN
    /\ mode \in Modes
    /\ pipeline \in {"simple", "diff"}
    /\ errAt \in 0..Len(commits)
    /\ heap = EmptyMap /\ seqOut = NoOut /\ applied = {} /\ live = {}
    /\ pool = EmptyMap /\ applyErr = {} /\ finalOut = NoOut
    /\ calls = EmptyMap /\ panicked = FALSE /\ acc = EmptyMap
    /\ AddIdle
    /\ RankIdle

SpecErr == InitErr /\ [][Next]_vars

\* a TallyMode that is none of the four constants
InvalidMode == LastModifiedMode + 1

InitMode ==
    /\ commits \in CommitSeqs
    /\ shardOf \in Partitions(Len(commits))
    /\ wtreefiles \in WTrees
    /\ allowOutsideWorktree \in BOOLEAN
    /\ mode = InvalidMode
    /\ pipeline \in {"simple", "diff"}
    /\ errAt = 0
    /\ heap = EmptyMap /\ seqOut = NoOut /\ applied = {} /\ live = {}
    /\ pool = EmptyMap /\ applyErr = {} /\ finalOut = NoOut
    /\ calls = EmptyMap /\ panicked = FALSE /\ acc = EmptyMap
    /\ AddIdle
    /\ RankIdle

SpecMode == InitMode /\ [][Next]_vars

(***************************************************************************)
(* SpecAdd: a collection of partial tallies reduced with Add in any order  *)
(* and any tree shape                                                      *)
(***************************************************************************)
\* the partial tallies the leaves are drawn from (commit set written out)
LeafMenu ==
    { [commitset |-> {"c1"}, added |-> 10, removed |-> 0,
       lastCommitTime |-> 2, numTallied |-> 1],
      [commitset |-> {"c2"}, added |-> 3, removed |-> 1,
       lastCommitTime |-> 1, numTallied |-> 1],
      [commitset |-> {"c1", "c3"}, added |-> 4, removed |-> 2,
       lastCommitTime |-> 3, numTallied |-> 2],
      [commitset |-> {}, added |-> 0, removed |-> 0,
       lastCommitTime |-> ZeroTime, numTallied |-> 0] }

InitAdd ==
    /\ PipelineIdle
    /\ RankIdle
    /\ mode = CommitMode
    /\ \E n \in 1..MaxLeaves :
          /\ leaves \in [1..n -> LeafMenu]
          /\ alive = 1..n
    \* every leaf has a commit set of its own
    /\ heap = [a \in {<<"leaf", i>> : i \in DOMAIN leaves} |->
                  leaves[a[2]].commitset]
    /\ tallies = [i \in DOMAIN leaves |->
                    [leaves[i] EXCEPT !.commitset = <<"leaf", i>>]]
    /\ lastAdd = NoAdd

\* r = tallies[i].Add(tallies[j]); r takes a new slot, the operands stay
\* where they are but are not combined again
Combine(i, j) ==
    /\ i \in alive /\ j \in alive /\ i # j
    /\ LET r == Add(heap, tallies[i], tallies[j])
       IN /\ heap' = r.heap
          /\ tallies' = Append(tallies, r.val)
          /\ alive' = (alive \ {i, j}) \cup {Len(tallies) + 1}
          /\ lastAdd' = [done |-> TRUE, a |-> i, b |-> j,
                         r |-> Len(tallies) + 1,
                         aBefore |-> TallyView(heap, tallies[i]),
                         bBefore |-> TallyView(heap, tallies[j])]
    /\ UNCHANGED <<inputVars, seqOut, applied, live, pool, applyErr,
                   finalOut, leaves, rankVars, calls, panicked, acc>>

NextAdd == \E i, j \in 1..(2 * MaxLeaves) : Combine(i, j)

SpecAdd == InitAdd /\ [][NextAdd]_vars

(***************************************************************************)
(* SpecRank: sortTallies on a map of tallies                               *)
(***************************************************************************)
MkTally(n, c, la, lr, fc, t) ==
    [AuthorName |-> n, AuthorEmail |-> n, Commits |-> c, LinesAdded |-> la,
     LinesRemoved |-> lr, FileCount |-> fc, LastCommitTime |-> t]

\* the tallies the maps are drawn from
TallyMenu ==
    { MkTally("A", 2, 10, 0, 2, 2),
      MkTally("B", 2, 3, 1, 1, 1),
      MkTally("C", 1, 0, 0, 0, 3),
      MkTally("D", 2, 5, 5, 2, 2),
      MkTally("E", 0, 0, 0, 0, 1) }

RankKeys(n) == {"k" \o ToString(i) : i \in 1..n}

InitRank ==
    /\ PipelineIdle
    /\ AddIdle
    /\ heap = EmptyMap
    /\ mode \in Modes
    /\ \E n \in 0..MaxRank : rankIn \in [RankKeys(n) -> TallyMenu]
    /\ rankOut = NoOut

Rank ==
    /\ ~rankOut.done
    /\ \E order \in RangeOrders(DOMAIN rankIn) :
          rankOut' = [done |-> TRUE, tallies |-> rankIn,
                      ranked |-> sortTallies(rankIn, mode, order)]
    /\ UNCHANGED <<inputVars, heap, seqOut, applied, live, pool, applyErr,
                   finalOut, addVars, rankIn, calls, panicked, acc>>

NextRank == Rank

SpecRank == InitRank /\ [][NextRank]_vars

(***************************************************************************)
(* Views used by the properties                                            *)
(***************************************************************************)
\* an author-paths table with every commit set read from the heap
TableView(h, authors) ==
    [k \in DOMAIN authors |->
        [authors[k] EXCEPT
            !.paths = [p \in DOMAIN @ |-> TallyView(h, @[p])]]]

\* the lists TallyCommits can return for a map of tallies
Rankings(ts, m) == {sortTallies(ts, m, o) : o \in RangeOrders(DOMAIN ts)}

\* the commits of the input attributed to author key k
CommitsOf(k) == {i \in DOMAIN commits : Key(commits[i]) = k}

RECURSIVE SumOver(_, _)
\* the sum of f over its domain restricted to S
SumOver(f, S) ==
    IF S = {} THEN 0
    ELSE LET x == CHOOSE y \in S : TRUE IN f[x] + SumOver(f, S \ {x})

\* no Merge has run yet: every live partial is what Apply returned
Unmerged == live = applied /\ applyErr = {} /\ ~finalOut.done

MergeView(a, b) ==
    IF pipeline = "simple" THEN mergeSimple(a, b)
    ELSE LET r == mergeDiff(heap, a, b) IN TableView(r.heap, r.union)

\* Merge(Merge(a, b), c), each Merge running in the heap the one before left
MergeLeftView(a, b, c) ==
    IF pipeline = "simple" THEN mergeSimple(mergeSimple(a, b), c)
    ELSE LET ab == mergeDiff(heap, a, b)
             r == mergeDiff(ab.heap, ab.union, c)
         IN TableView(r.heap, r.union)

\* Merge(a, Merge(b, c))
MergeRightView(a, b, c) ==
    IF pipeline = "simple" THEN mergeSimple(a, mergeSimple(b, c))
    ELSE LET bc == mergeDiff(heap, b, c)
             r == mergeDiff(bc.heap, a, bc.union)
         IN TableView(r.heap, r.union)

(***************************************************************************)
(* Properties                                                              *)
(***************************************************************************)
\* C1: whenever both the sequential engine and the pipeline have finished,
\* the list Finalize returned is a list TallyCommits returns for the whole
\* sequence (the same records in the same ranking).
C1_MapReduceEquivalence ==
    (seqOut.done /\ finalOut.done) =>
        /\ finalOut.tallies = seqOut.tallies
        /\ finalOut.ranked \in Rankings(seqOut.tallies, mode)

\* C2: Merge is commutative and associative, in every field of every
\* entry, on the partials Apply returned for the shards.
C2_MergeAlgebra ==
    Unmerged =>
        /\ \A i, j \in live : i # j =>
              MergeView(pool[i], pool[j]) = MergeView(pool[j], pool[i])
        /\ \A i, j, k \in live : (i # j /\ j # k /\ i # k) =>
              MergeLeftView(pool[i], pool[j], pool[k])
                  = MergeRightView(pool[i], pool[j], pool[k])

\* C3: Add leaves its operands as they were: right after r = a.Add(b) both
\* a and b have the commit set, line counts, timestamp and tallied-count
\* they had before the call.
C3_AddIsPure ==
    lastAdd.done =>
        /\ TallyView(heap, tallies[lastAdd.a]) = lastAdd.aBefore
        /\ TallyView(heap, tallies[lastAdd.b]) = lastAdd.bBefore

\* what a collection of partial tallies combines to: union, sums, maximum
Combined(ls) ==
    [commitset |-> UNION {ls[i].commitset : i \in DOMAIN ls},
     added |-> SumOver([i \in DOMAIN ls |-> ls[i].added], DOMAIN ls),
     removed |-> SumOver([i \in DOMAIN ls |-> ls[i].removed], DOMAIN ls),
     lastCommitTime |-> SetMax({ls[i].lastCommitTime : i \in DOMAIN ls}),
     numTallied |-> SumOver([i \in DOMAIN ls |-> ls[i].numTallied], DOMAIN ls)]

AddView(h, a, b) == LET r == Add(h, a, b) IN TallyView(r.heap, r.val)

AddLeftView(h, a, b, c) ==
    LET ab == Add(h, a, b)
        r == Add(ab.heap, ab.val, c)
    IN TallyView(r.heap, r.val)

AddRightView(h, a, b, c) ==
    LET bc == Add(h, b, c)
        r == Add(bc.heap, a, bc.val)
    IN TallyView(r.heap, r.val)

\* C4: Add is commutative and associative, and a collection of partial
\* tallies reduced in any order and tree shape ends as the union of the
\* commit sets, the sums of added, removed and tallied-count, and the
\* maximum of the times.
C4_AddAlgebra ==
    /\ \A i, j \in alive : i # j =>
          AddView(heap, tallies[i], tallies[j])
              = AddView(heap, tallies[j], tallies[i])
    /\ \A i, j, k \in alive : (i # j /\ j # k /\ i # k) =>
          AddLeftView(heap, tallies[i], tallies[j], tallies[k])
              = AddRightView(heap, tallies[i], tallies[j], tallies[k])
    /\ \A i \in alive :
          Cardinality(alive) = 1 =>
              TallyView(heap, tallies[i]) = Combined(leaves)

\* three different leaves, one of them sharing a commit with another, have
\* been reduced to one partial tally
C4_Witness ==
    /\ Len(leaves) = 3
    /\ Cardinality({leaves[i] : i \in DOMAIN leaves}) = 3
    /\ \E i, j \in DOMAIN leaves :
          i # j /\ leaves[i].commitset \cap leaves[j].commitset # {}
    /\ Cardinality(alive) = 1
    /\ Len(tallies) = 5

\* the commit sequence without its i-th element
Without(i) ==
    [k \in 1..(Len(commits) - 1) |-> IF k < i THEN commits[k] ELSE commits[k + 1]]

CommitCount(ts, k) == IF k \in DOMAIN ts THEN ts[k].Commits ELSE 0

\* the tallies of the sequential engine for the sequence without commit i
TalliesWithout(i) ==
    tallyCommits(EmptyMap, "seq", Without(i), wtreefiles,
                 allowOutsideWorktree, mode).tallies

\* commit c touches a path that passes the working-tree filter
Counted(c) ==
    \E n \in DOMAIN c.FileDiffs :
        c.FileDiffs[n].Path \in wtreefiles \/ allowOutsideWorktree

\* C5 as stated: a commit that touches N >= 1 files raises its author's
\* final commit count by exactly 1, in every mode and filter configuration.
C5_DedupLaw ==
    seqOut.done =>
        \A i \in DOMAIN commits :
            Len(commits[i].FileDiffs) >= 1 =>
                CommitCount(seqOut.tallies, Key(commits[i]))
                    = CommitCount(TalliesWithout(i), Key(commits[i])) + 1

\* C5 amended: a commit that touches N >= 1 files raises its author's final
\* commit count by exactly 1 when the override flag is set or one of its
\* files is in the working-tree set, and by 0 when the override flag is off
\* and none of its files is in the working-tree set.
C5_DedupLawFiltered ==
    seqOut.done =>
        \A i \in DOMAIN commits :
            Len(commits[i].FileDiffs) >= 1 =>
                CommitCount(seqOut.tallies, Key(commits[i]))
                    = CommitCount(TalliesWithout(i), Key(commits[i]))
                        + (IF Counted(commits[i]) THEN 1 ELSE 0)

\* TallyCommits has returned for a sequence in which one author has a
\* two-file commit that passes the filter next to another commit, and
\* another commit has no file in the working tree
C5_Witness ==
    /\ seqOut.done
    /\ ~allowOutsideWorktree
    /\ \E i, j \in DOMAIN commits :
          /\ i # j
          /\ Key(commits[i]) = Key(commits[j])
          /\ Len(commits[i].FileDiffs) = 2
          /\ Counted(commits[i])
          /\ Len(commits[j].FileDiffs) >= 1
          /\ seqOut.tallies[Key(commits[i])].Commits >= 1
    /\ \E i \in DOMAIN commits :
          Len(commits[i].FileDiffs) >= 1 /\ ~Counted(commits[i])

\* C6: an author's Commits is never more than the number of commits of the
\* input attributed to that author: in the outcome of TallyCommits, in the
\* outcome of Finalize and in every partial of the simple pipeline.
C6_CommitsAtMostDistinct ==
    /\ \A k \in DOMAIN seqOut.tallies :
          seqOut.tallies[k].Commits <= Cardinality(CommitsOf(k))
    /\ \A k \in DOMAIN finalOut.tallies :
          finalOut.tallies[k].Commits <= Cardinality(CommitsOf(k))
    /\ pipeline = "simple" =>
          \A i \in live : \A k \in DOMAIN pool[i] :
              pool[i][k].Commits <= Cardinality(CommitsOf(k))

\* Finalize has returned after two Merges, for an author with a multi-file
\* commit whose every commit is counted
C6_Witness ==
    /\ finalOut.done
    /\ NumShards = 3
    /\ \E i \in DOMAIN commits :
          /\ Len(commits[i].FileDiffs) = 2
          /\ Cardinality(CommitsOf(Key(commits[i]))) = 2
          /\ Key(commits[i]) \in DOMAIN finalOut.tallies
          /\ finalOut.tallies[Key(commits[i])].Commits = 2

\* the paths of an author-paths entry that pass the working-tree filter
CountedPaths(author) ==
    {p \in DOMAIN author.paths : p \in wtreefiles \/ allowOutsideWorktree}

\* the tallies the filter law prescribes for a table (commit sets written out)
FilterLaw(table, ts) ==
    /\ DOMAIN ts = DOMAIN table
    /\ \A k \in DOMAIN table :
          LET ps == table[k].paths
              S == CountedPaths(table[k])
          IN /\ ts[k].FileCount = SumOver([p \in DOMAIN ps |-> ps[p].numTallied], S)
             /\ ts[k].LinesAdded = SumOver([p \in DOMAIN ps |-> ps[p].added], S)
             /\ ts[k].LinesRemoved = SumOver([p \in DOMAIN ps |-> ps[p].removed], S)
             /\ ts[k].Commits = Cardinality(UNION {ps[p].commitset : p \in S})

\* the table Finalize of the author-paths pipeline was given
FinalTable == TableView(heap, pool[CHOOSE j \in live : TRUE])

\* the table the path-aware strategy of the sequential engine builds
SeqTable ==
    LET r == tallyByPaths(EmptyMap, "seq", commits)
    IN TableView(r.heap, r.authors)

PathAware == IsDiffMode(mode) \/ ~allowOutsideWorktree

\* C7: in the author-level reduction a path's partial tally goes into the
\* author's file count, line totals and commit set exactly when the path is
\* in the working-tree set or the override flag is set.
C7_FilterLaw ==
    /\ (finalOut.done /\ pipeline = "diff") =>
          FilterLaw(FinalTable, finalOut.tallies)
    /\ (seqOut.done /\ PathAware) =>
          FilterLaw(SeqTable, seqOut.tallies)

\* Finalize has reduced a table in which an author has a path inside and a
\* path outside the working tree, with the override off
C7_Witness ==
    /\ finalOut.done
    /\ pipeline = "diff"
    /\ ~allowOutsideWorktree
    /\ \E k \in DOMAIN FinalTable :
          /\ CountedPaths(FinalTable[k]) # {}
          /\ CountedPaths(FinalTable[k]) # DOMAIN FinalTable[k].paths
          /\ finalOut.tallies[k].FileCount >= 1

\* C8: an author's FileCount is the number of distinct paths of the author
\* that pass the filter.
C8_FileCountIsDistinctPaths ==
    /\ (finalOut.done /\ pipeline = "diff") =>
          \A k \in DOMAIN FinalTable :
              finalOut.tallies[k].FileCount
                  = Cardinality(CountedPaths(FinalTable[k]))
    /\ (seqOut.done /\ PathAware) =>
          \A k \in DOMAIN SeqTable :
              seqOut.tallies[k].FileCount
                  = Cardinality(CountedPaths(SeqTable[k]))

\* l is a permutation of the values of the map ts
IsPermutation(l, ts) ==
    \E o \in RangeOrders(DOMAIN ts) :
        l = [i \in 1..Cardinality(DOMAIN ts) |-> ts[o[i]]]

\* C9: the slice sortTallies returns is a permutation of the map's values,
\* non-increasing in SortKey(mode) and, among equal SortKey, non-increasing
\* in LastCommitTime.
C9_RankingOrder ==
    rankOut.done =>
        /\ IsPermutation(rankOut.ranked, rankIn)
        /\ \A i, j \in DOMAIN rankOut.ranked :
              i < j =>
                  LET a == rankOut.ranked[i]
                      b == rankOut.ranked[j]
                  IN /\ SortKey(a, mode) >= SortKey(b, mode)
                     /\ SortKey(a, mode) = SortKey(b, mode) =>
                           a.LastCommitTime >= b.LastCommitTime

\* three tallies have been ranked, two of them equal in the metric and
\* different in time, and one with another metric
C9_Witness ==
    /\ rankOut.done
    /\ Len(rankOut.ranked) = 3
    /\ \E i, j \in DOMAIN rankOut.ranked :
          /\ i < j
          /\ SortKey(rankOut.ranked[i], mode) = SortKey(rankOut.ranked[j], mode)
          /\ rankOut.ranked[i].LastCommitTime > rankOut.ranked[j].LastCommitTime
    /\ \E i, j \in DOMAIN rankOut.ranked :
          SortKey(rankOut.ranked[i], mode) > SortKey(rankOut.ranked[j], mode)

\* the scenario: C1 by A adds 10 lines to x.go and 5 to y.go, C2 by B adds 3
\* lines to z.go; x.go and y.go are in the working tree; default filtering,
\* lines mode
Scenario ==
    /\ Len(commits) = 2
    /\ {commits[1].Hash, commits[2].Hash} = {"c1", "c2"}
    /\ wtreefiles = {"x.go", "y.go"}
    /\ ~allowOutsideWorktree
    /\ mode = LinesMode

\* the ranked list is A = {Commits 1, LinesAdded 15, FileCount 2} before
\* B = {Commits bCommits, LinesAdded 0, FileCount 0}
ScenarioRanked(l, bCommits) ==
    /\ Len(l) = 2
    /\ l[1].AuthorName = "A" /\ l[1].Commits = 1
    /\ l[1].LinesAdded = 15 /\ l[1].FileCount = 2
    /\ l[2].AuthorName = "B" /\ l[2].Commits = bCommits
    /\ l[2].LinesAdded = 0 /\ l[2].FileCount = 0

\* C10 as stated: in the scenario B = {Commits 1, LinesAdded 0, FileCount 0}.
C10_Scenario ==
    Scenario =>
        /\ seqOut.done => ScenarioRanked(seqOut.ranked, 1)
        /\ finalOut.done => ScenarioRanked(finalOut.ranked, 1)

\* C10 amended: in the scenario A = {Commits 1, LinesAdded 15, FileCount 2}
\* is ranked before B = {Commits 0, LinesAdded 0, FileCount 0}: B's only
\* commit edits no path of the working tree.
C10_ScenarioFiltered ==
    Scenario =>
        /\ seqOut.done => ScenarioRanked(seqOut.ranked, 0)
        /\ finalOut.done => ScenarioRanked(finalOut.ranked, 0)

\* the scenario has been tallied by the sequential engine and by the
\* author-paths pipeline with one shard per commit
C10_Witness ==
    /\ Scenario
    /\ seqOut.done
    /\ finalOut.done
    /\ NumShards = 2

(***************************************************************************)
(* C11, C12: errors of the sequence and of the configuration (SpecErr)     *)
(***************************************************************************)
\* the sequence handed to call c yields its error
YieldsErr(c) == errAt # 0 /\ (c = 0 \/ shardOf[errAt] = c)

\* the elements of call c's sequence up to and with the erroring one
ErrPos(c) == Cardinality({k \in 1..errAt : c = 0 \/ shardOf[k] = c})

\* call c ranges over its sequence: every call but apply of the simple
\* pipeline in a diff mode
Iterates(c) == c = 0 \/ ~(pipeline = "simple" /\ IsDiffMode(mode))

\* what call c handed back: the ranking of TallyCommits, the partial of Apply
Handed(c) == IF c = 0 THEN seqOut.ranked # <<>> ELSE c \in DOMAIN pool

\* C11: a call whose sequence yields an error at an element stops at that
\* element and returns a non-nil error that wraps the source error, with a
\* nil result: nothing accumulated from the earlier elements is returned.
C11_IterationError ==
    \A c \in DOMAIN calls :
        YieldsErr(c) /\ Iterates(c) =>
            /\ calls[c].consumed = ErrPos(c)
            /\ calls[c].err # NilErr
            /\ calls[c].err.wraps = "source error"
            /\ calls[c].isNil
            /\ ~Handed(c)

\* TallyCommits and an Apply have both returned on an error that came after
\* an element they had already tallied
C11_Witness ==
    /\ 0 \in DOMAIN calls
    /\ ErrPos(0) >= 2
    /\ \E c \in DOMAIN calls \ {0} :
            YieldsErr(c) /\ Iterates(c) /\ ErrPos(c) >= 2

\* C12: apply of the simple pipeline in lines or files mode returns an error
\* and a nil partial without consuming any element, whatever the sequence is.
C12_ModeMismatch ==
    pipeline = "simple" /\ IsDiffMode(mode) =>
        \A c \in DOMAIN calls \ {0} :
            /\ calls[c].consumed = 0
            /\ calls[c].err = ModeErr
            /\ calls[c].isNil
            /\ ~Handed(c)
            /\ c \in applyErr

\* the mismatch was reported for an empty sequence, or for one whose first
\* element is an error
C12_Witness ==
    /\ pipeline = "simple" /\ IsDiffMode(mode)
    /\ 1 \in DOMAIN calls
    /\ commits = <<>> \/ errAt = 1

(***************************************************************************)
(* C13: a mode outside the enumeration (SpecMode)                          *)
(***************************************************************************)
\* C13: with an unrecognized mode no run of TallyCommits or of a pipeline
\* reaches the default branch of SortKey, whatever the input is.
C13_InvalidModeRejected == mode \notin Modes => ~panicked

(***************************************************************************)
(* C15: the simple strategy (SpecMerge)                                    *)
(***************************************************************************)
\* the latest date among the commits at positions S
MaxDate(S) == SetMax({commits[i].Date : i \in S})

\* C15: in a non-diff mode with the override set, tallyCommits gives every
\* author key the number of its commit records as Commits, the maximum of
\* their dates as LastCommitTime, and 0 lines and files; a commit without
\* files counts like any other.
C15_SimpleStrategy ==
    (seqOut.done /\ ~IsDiffMode(mode) /\ allowOutsideWorktree) =>
        /\ DOMAIN seqOut.tallies = {Key(commits[i]) : i \in DOMAIN commits}
        /\ \A k \in DOMAIN seqOut.tallies :
              /\ seqOut.tallies[k].Commits = Cardinality(CommitsOf(k))
              /\ seqOut.tallies[k].LastCommitTime = MaxDate(CommitsOf(k))
              /\ seqOut.tallies[k].LinesAdded = 0
              /\ seqOut.tallies[k].LinesRemoved = 0
              /\ seqOut.tallies[k].FileCount = 0

\* the simple strategy has tallied an author with two commits, one of them
\* without files, and a second author
C15_Witness ==
    /\ seqOut.done /\ ~IsDiffMode(mode) /\ allowOutsideWorktree
    /\ Cardinality(DOMAIN seqOut.tallies) = 2
    /\ \E i, j \in DOMAIN commits :
          /\ i # j /\ Key(commits[i]) = Key(commits[j])
          /\ commits[i].FileDiffs = <<>>
          /\ commits[j].FileDiffs # <<>>
          /\ seqOut.tallies[Key(commits[i])].Commits = 2

(***************************************************************************)
(* C16: merge of the simple pipeline (SpecMerge)                           *)
(***************************************************************************)
\* what C16 says of u = Merge(a, b)
MergeLaw(a, b, u) ==
    /\ DOMAIN u = DOMAIN a \cup DOMAIN b
    /\ \A k \in DOMAIN a \ DOMAIN b :
          /\ u[k].Commits = a[k].Commits
          /\ u[k].LastCommitTime = a[k].LastCommitTime
    /\ \A k \in DOMAIN b \ DOMAIN a :
          /\ u[k].Commits = b[k].Commits
          /\ u[k].LastCommitTime = b[k].LastCommitTime
    /\ \A k \in DOMAIN a \cap DOMAIN b :
          /\ u[k].Commits = a[k].Commits + b[k].Commits
          /\ u[k].LastCommitTime =
                 SetMax({a[k].LastCommitTime, b[k].LastCommitTime})

\* C16: Merge of the simple pipeline has the union of the operands' keys; a
\* key of one operand only keeps its Commits and LastCommitTime, a key of
\* both gets the sum of the Commits and the later LastCommitTime.
C16_MergeSimple ==
    pipeline = "simple" =>
        \A i, j \in live :
            i # j => MergeLaw(pool[i], pool[j], mergeSimple(pool[i], pool[j]))

\* two partials of the simple pipeline share a key with different times and
\* one of them has a key the other lacks
C16_Witness ==
    /\ pipeline = "simple"
    /\ \E i, j \in live :
          /\ i # j
          /\ DOMAIN pool[i] \ DOMAIN pool[j] # {}
          /\ \E k \in DOMAIN pool[i] \cap DOMAIN pool[j] :
                pool[i][k].LastCommitTime # pool[j][k].LastCommitTime

(***************************************************************************)
(* C17: the author-level reduction and its input (SpecMerge)               *)
(***************************************************************************)
\* the inner loop of sumOverPaths for author key k, its paths ranged in the
\* order ps: [heap, val]
ReduceAuthor(h, table, k, ps) ==
    sumPaths(newTally(h, "reduce", 0), table[k], ps, wtreefiles,
             allowOutsideWorktree)

\* sumOverPaths on table in heap h leaves every per-path partial of the table
\* as it was, in whatever order the paths of an author are ranged over, and a
\* second run on the heap it left returns the same tallies
KeepsInput(h, table) ==
    LET once == sumOverPaths(h, "reduce", table, wtreefiles,
                             allowOutsideWorktree)
        twice == sumOverPaths(once.heap, "reduce", table, wtreefiles,
                              allowOutsideWorktree)
    IN /\ TableView(once.heap, table) = TableView(h, table)
       /\ twice.tallies = once.tallies
       /\ \A k \in DOMAIN table :
             \A ps \in RangeOrders(DOMAIN table[k].paths) :
                 LET run == ReduceAuthor(h, table, k, ps)
                     again == ReduceAuthor(run.heap, table, k, ps)
                 IN /\ TableView(run.heap, table) = TableView(h, table)
                    /\ TallyView(again.heap, again.val) =
                           TallyView(run.heap, run.val)

\* the table tallyCommits hands to sumOverPaths, with the heap it is in
SeqPaths == tallyByPaths(EmptyMap, "seq", commits)

\* C17: sumOverPaths leaves its input unchanged: every per-path partial of
\* the table keeps its commit set, line counts, time and tallied-count, and
\* running the reduction twice on one table returns equal results.
\* Stated for the table of tallyCommits when TallyCommits has returned, and
\* for every table of the author-paths pipeline, the one Finalize reduces
\* included.
C17_ReductionKeepsInput ==
    /\ pipeline = "diff" => \A j \in live : KeepsInput(heap, pool[j])
    /\ (seqOut.done /\ applied = {}) =>
          KeepsInput(SeqPaths.heap, SeqPaths.authors)

\* the table left by the last Merge, the one Finalize reduces, has an author
\* with two paths that pass the filter and carry different commit sets
C17_Witness ==
    /\ pipeline = "diff"
    /\ applied = 1..NumShards /\ NumShards >= 2
    /\ Cardinality(live) = 1
    /\ \E k \in DOMAIN FinalTable :
          \E p, q \in CountedPaths(FinalTable[k]) :
              FinalTable[k].paths[p].commitset # FinalTable[k].paths[q].commitset

(***************************************************************************)
(* C18: Compare as a three-way comparator (SpecRank)                       *)
(***************************************************************************)
\* the tallies sortTallies compares
Compared == {rankIn[k] : k \in DOMAIN rankIn}

\* C18: for the four modes Compare is a consistent three-way comparator:
\* a.Compare(b) is the negation of b.Compare(a), it is 0 exactly when the two
\* tallies have equal SortKey and equal LastCommitTime, and it is transitive.
C18_CompareConsistent ==
    \A a, b \in Compared :
        /\ Compare(a, b, mode) \in {-1, 0, 1}
        /\ Compare(a, b, mode) = -Compare(b, a, mode)
        /\ Compare(a, b, mode) = 0 <=>
              /\ SortKey(a, mode) = SortKey(b, mode)
              /\ a.LastCommitTime = b.LastCommitTime
        /\ \A c \in Compared :
              /\ (Compare(a, b, mode) <= 0 /\ Compare(b, c, mode) <= 0) =>
                     Compare(a, c, mode) <= 0
              /\ (Compare(a, b, mode) < 0 /\ Compare(b, c, mode) <= 0) =>
                     Compare(a, c, mode) < 0

\* three tallies have been ranked: two distinct ones that compare as 0 and a
\* third with the same metric and another time
C18_Witness ==
    /\ rankOut.done
    /\ Cardinality(Compared) = 3
    /\ \E a, b, c \in Compared :
          /\ a # b
          /\ Compare(a, b, mode) = 0
          /\ SortKey(a, mode) = SortKey(c, mode)
          /\ Compare(a, c, mode) # 0

(***************************************************************************)
(* C19: the working-tree path set (Spec)                                   *)
(***************************************************************************)
\* C19: no call of TallyCommits, Apply, Merge or Finalize changes the
\* working-tree path set, tests on paths that are absent from it included.
C19_WorkingTreeKept == [][wtreefiles' = wtreefiles]_vars

\* the path-aware strategy and Finalize of the author-paths pipeline have
\* both tested a path that is not in the working-tree set
C19_Witness ==
    /\ seqOut.done /\ PathAware
    /\ finalOut.done /\ pipeline = "diff"
    /\ \E k \in DOMAIN FinalTable : DOMAIN FinalTable[k].paths \ wtreefiles # {}

(***************************************************************************)
(* C14: concurrent Apply calls (SpecApply)                                 *)
(***************************************************************************)
\* the call for shard i run alone, in a heap of its own
RunAlone(i) ==
    IF pipeline = "simple"
    THEN applySimple(EmptyMap, ShardOwner(i), ShardItems(i))
    ELSE applyDiff(EmptyMap, ShardOwner(i), ShardItems(i))

\* a partial with every commit set read from the heap
PartialView(h, partial) ==
    IF pipeline = "diff" THEN TableView(h, partial) ELSE partial

\* C14: in every interleaving of the Apply calls of one pipeline each call
\* returns the partial it returns when it runs alone, and the partial stays
\* what the call returned while the other calls run.
C14_ApplyIndependent ==
    \A i \in applied :
        LET r == RunAlone(i)
        IN /\ calls[i] = Returned(r)
           /\ IF r.isNil THEN i \notin DOMAIN pool
              ELSE PartialView(heap, pool[i]) = PartialView(r.heap, r.val)

\* a call has returned while the call for another shard with commits of the
\* same author is between two elements of its shard
C14_Witness ==
    \E i, j \in 1..NumShards :
        /\ i \in live /\ j \notin applied
        /\ Pos(j) >= 1 /\ Pos(j) < Len(Shard(j))
        /\ DOMAIN pool[i] \cap DOMAIN Cur(j) # {}

====
